---- MODULE Spec2Model ----
(***************************************************************************)
(* State-machine model of the 2D canvas editor in src/main.py: the toolbar *)
(* dispatcher (DrawArea), the toolbar layout and buttons, the shape        *)
(* registry and the press / drag / release machine (Scene), and the drag   *)
(* controller (draggable).                                                  *)
(*                                                                         *)
(* Python values are modelled as follows.                                   *)
(*   vec2            a pair <<x, y>> of integers (pointer positions are     *)
(*                   drawn from a lattice of window coordinates)            *)
(*   None / object   the empty sequence <<>> / a one-element sequence <<v>> *)
(*   Shape object    an entry of the heap objs, indexed by its identity;    *)
(*                   scene.shapes, scene.selected and draggable.shape hold  *)
(*                   identities, as the Python fields hold references       *)
(*   return value    "True", "False" or "None" (a function that falls off   *)
(*                   its end returns None)                                  *)
(***************************************************************************)
EXTENDS Integers, Sequences, FiniteSets, TLC

(* ----------------------------- constants ------------------------------ *)

WIDTH == 640
HEIGHT == 480
UI_TOP_BAR_HEIGHT == 32
BUTTON_SIZE == 20
BUTTON_MARGIN == 6

\* radius of the shape a right-click creates
SHAPE_RADIUS == 40

\* number of buttons DrawArea hands to its Toolbar ("select", "delete")
BUTTON_COUNT == 2

\* how many Shape objects are constructed in a run (uuid4 identities 1..MaxIds)
MaxIds == 2

(* ------------------------------ values -------------------------------- *)

None == <<>>
Some(v) == <<v>>
Val(o) == o[1]

vec2(x, y) == <<x, y>>

\* vec2 is imported from the library shared_python.shared_math.geometry; the
\* two operations the program uses are taken as the usual vector operations.
\* vec2.__sub__ : component-wise difference, a new vec2
vec2_sub(a, b) == <<a[1] - b[1], a[2] - b[2]>>

\* vec2.translate : component-wise in-place addition
vec2_translate(a, d) == <<a[1] + d[1], a[2] + d[2]>>

Ids == 1..MaxIds

(* ------------------------------ Button -------------------------------- *)

Button_init(id, size, color) ==
    [id |-> id, pos |-> None, size |-> size, color |-> color,
     clicked |-> FALSE, selected |-> FALSE]

Button_set_pos(b, pos) == [b EXCEPT !.pos = Some(pos)]

Button_hit_test(b, pos) ==
    /\ Val(b.pos)[1] <= pos[1] /\ pos[1] <= Val(b.pos)[1] + b.size
    /\ Val(b.pos)[2] <= pos[2] /\ pos[2] <= Val(b.pos)[2] + b.size

Button_click_stuck(b) == [b EXCEPT !.selected = TRUE]

Button_click(b) == [b EXCEPT !.selected = ~ b.selected]

(* ------------------------------ Toolbar ------------------------------- *)

Toolbar_start_x(button_count) ==
    LET button_width == BUTTON_SIZE * button_count
                        + BUTTON_MARGIN * (button_count + 1)
    IN  (WIDTH - button_width) \div 2

Toolbar_y == (UI_TOP_BAR_HEIGHT - BUTTON_SIZE) \div 2

Toolbar_create_button_positions(btns) ==
    [i \in 1..Len(btns) |->
        Button_set_pos(btns[i],
            vec2(Toolbar_start_x(Len(btns)) + (i - 1) * (BUTTON_SIZE + BUTTON_MARGIN),
                 Toolbar_y))]

\* the buttons DrawArea.__init__ builds, after Toolbar.__init__ has laid them out
Toolbar_init ==
    Toolbar_create_button_positions(
        << Button_init("select", BUTTON_SIZE, "grey"),
           Button_init("delete", BUTTON_SIZE, "grey") >>)

Toolbar_hit_test_none(btns, pos) == 0

\* index of the first button containing pos, 0 for None
Toolbar_hit_test(btns, pos) ==
    LET hits == {i \in 1..Len(btns) : Button_hit_test(btns[i], pos)}
    IN  IF hits = {} THEN 0
        ELSE CHOOSE i \in hits : \A j \in hits : i <= j

(* ------------------------------- Shape -------------------------------- *)

Shape_init(pos, radius, color, id) ==
    [pos |-> pos, radius |-> radius, color |-> color, id |-> id]

\* a containment test that excludes the circle itself
Shape_contains_strict(s, pos) ==
    (pos[1] - s.pos[1]) * (pos[1] - s.pos[1])
    + (pos[2] - s.pos[2]) * (pos[2] - s.pos[2]) < s.radius * s.radius

\* ((dx^2 + dy^2) ^ 0.5 <= radius), on integers
Shape_contains(s, pos) ==
    (pos[1] - s.pos[1]) * (pos[1] - s.pos[1])
    + (pos[2] - s.pos[2]) * (pos[2] - s.pos[2]) <= s.radius * s.radius

Shape_translate(s, d) == [s EXCEPT !.pos = vec2_translate(@, d)]

(* ------------------------- pointer positions -------------------------- *)

\* lattice pitch: a shape of radius SHAPE_RADIUS has its four axis
\* neighbours exactly on its circle
Step == SHAPE_RADIUS

\* one column through each button; one row through the buttons and one
\* below the toolbar
Points ==
    {vec2(Toolbar_start_x(BUTTON_COUNT) + i * Step, Toolbar_y + j * Step) :
        i \in 0..(BUTTON_COUNT - 1), j \in 0..1}

Radii == {SHAPE_RADIUS}

Colors == {"green"}

(* ------------------------------- state -------------------------------- *)

VARIABLES
    shapes,      \* Scene.shapes: the registry, a list of Shape references
    objs,        \* the Shape objects, by identity; None once unreferenced
    selected,    \* Scene.selected: None or a Shape reference
    draggable,   \* Scene.draggable: None or a draggable object
    buttons,     \* Toolbar.buttons
    nextId,      \* the identity the next constructed Shape gets (uuid4)
    last,        \* the last call that reached the toolbar, the scene or the
                 \* registry: its arguments, its result, the state it met
    gesture      \* history: grab point, centre at selection, anchor point

vars == <<shapes, objs, selected, draggable, buttons, nextId, last, gesture>>

Range(seq) == {seq[i] : i \in 1..Len(seq)}

\* the state of the interaction machine (spec section 4.4)
State ==
    IF selected = None THEN "Idle"
    ELSE IF draggable = None THEN "Selected" ELSE "Dragging"

Event(op, pos, via, ret, err, sid) ==
    [op |-> op, pos |-> pos, pre |-> State, via |-> via, ret |-> ret,
     err |-> err, sid |-> sid]

\* Shape objects nothing in the scene refers to any more are dropped
Collect(heap, reg, sel, drg) ==
    [i \in Ids |->
        IF \/ i \in Range(reg)
           \/ sel = Some(i)
           \/ (drg # None /\ Val(drg).shape = i)
        THEN heap[i] ELSE None]

(* ----------------------------- draggable ------------------------------ *)

draggable_init_origin(start_pos, dragging_shape) ==
    [current_pos |-> vec2(0, 0), shape |-> dragging_shape]

\* a drag record that takes the first registered shape under the pointer
\* instead of the shape it is given
draggable_init_under_pointer(start_pos, dragging_shape) ==
    LET hits == {i \in 1..Len(shapes) : Shape_contains(Val(objs[shapes[i]]), start_pos)}
    IN  [current_pos |-> start_pos,
         shape |-> IF hits = {} THEN dragging_shape
                   ELSE shapes[CHOOSE i \in hits : \A j \in hits : i <= j]]

draggable_init(start_pos, dragging_shape) ==
    [current_pos |-> start_pos, shape |-> dragging_shape]

\* a work() that snaps the shape to the pointer instead of moving it by the delta
draggable_work_snap(d, pos, heap) ==
    [self |-> [d EXCEPT !.current_pos = pos],
     heap |-> [heap EXCEPT ![d.shape] = Some([Val(@) EXCEPT !.pos = pos])]]

\* a work() that moves the shape but forgets to store the new pointer position
draggable_work_stale(d, pos, heap) ==
    LET distance == vec2_sub(pos, d.current_pos)
    IN  [self |-> d,
         heap |-> [heap EXCEPT ![d.shape] = Some(Shape_translate(Val(@), distance))]]

\* a work() that moves every shape, not only the dragged one
draggable_work_all(d, pos, heap) ==
    LET distance == vec2_sub(pos, d.current_pos)
    IN  [self |-> [d EXCEPT !.current_pos = pos],
         heap |-> [i \in DOMAIN heap |->
                      IF heap[i] = None THEN None
                      ELSE Some(Shape_translate(Val(heap[i]), distance))]]

draggable_work(d, pos, heap) ==
    LET distance == vec2_sub(pos, d.current_pos)
    IN  [self |-> [d EXCEPT !.current_pos = pos],
         heap |-> [heap EXCEPT ![d.shape] = Some(Shape_translate(Val(@), distance))]]

(* ------------------------------- Scene -------------------------------- *)

Scene_add_shape_front(reg, shape) == <<shape>> \o reg

Scene_add_shape(reg, shape) == Append(reg, shape)

\* a remove that matches by equal position, radius and colour (as a Shape
\* with a value __eq__ would) instead of by identity
Scene_remove_shape_by_value(reg, shape) ==
    LET same(a, b) == /\ a.pos = b.pos /\ a.radius = b.radius /\ a.color = b.color
        at == IF objs[shape] = None THEN {}
              ELSE {i \in 1..Len(reg) : same(Val(objs[reg[i]]), Val(objs[shape]))}
    IN  IF at = {} THEN [shapes |-> reg, err |-> "ValueError"]
        ELSE LET k == CHOOSE i \in at : \A j \in at : i <= j
             IN  [shapes |-> SubSeq(reg, 1, k - 1) \o SubSeq(reg, k + 1, Len(reg)),
                  err |-> "none"]

\* list.remove: drops the first entry that is the shape, ValueError when none is
Scene_remove_shape(reg, shape) ==
    LET at == {i \in 1..Len(reg) : reg[i] = shape}
    IN  IF at = {} THEN [shapes |-> reg, err |-> "ValueError"]
        ELSE LET k == CHOOSE i \in at : \A j \in at : i <= j
             IN  [shapes |-> SubSeq(reg, 1, k - 1) \o SubSeq(reg, k + 1, Len(reg)),
                  err |-> "none"]

\* a press branch without the "nothing selected yet" test: it hit-tests and
\* selects again while a selection exists
Scene_LEFT_CLICK_DOWN_reselect(pos) ==
    LET hits == {i \in 1..Len(shapes) : Shape_contains(Val(objs[shapes[i]]), pos)}
    IN  IF hits = {} THEN [selected |-> selected, ret |-> "None"]
        ELSE [selected |-> Some(shapes[CHOOSE i \in hits : \A j \in hits : i <= j]),
              ret |-> "True"]

Scene_LEFT_CLICK_DOWN(pos) ==
    IF selected = None
    THEN LET hits == {i \in 1..Len(shapes) : Shape_contains(Val(objs[shapes[i]]), pos)}
         IN  IF hits = {} THEN [selected |-> None, ret |-> "None"]
             ELSE [selected |-> Some(shapes[CHOOSE i \in hits : \A j \in hits : i <= j]),
                   ret |-> "True"]
    ELSE [selected |-> selected, ret |-> "None"]

\* a drag branch without the early return for "nothing selected": it starts a
\* drag of the first registered shape
Scene_LEFT_CLICK_DRAG_unguarded(pos) ==
    IF selected = None
    THEN IF shapes = <<>>
         THEN [draggable |-> draggable, objs |-> objs, ret |-> "False"]
         ELSE [draggable |-> Some(draggable_init(pos, shapes[1])),
               objs |-> objs, ret |-> "None"]
    ELSE IF draggable = None
    THEN [draggable |-> Some(draggable_init(pos, Val(selected))),
          objs |-> objs, ret |-> "None"]
    ELSE LET w == draggable_work(Val(draggable), pos, objs)
         IN  [draggable |-> Some(w.self), objs |-> w.heap, ret |-> "None"]

Scene_LEFT_CLICK_DRAG(pos) ==
    IF selected = None
    THEN [draggable |-> draggable, objs |-> objs, ret |-> "False"]
    ELSE IF draggable = None
    THEN [draggable |-> Some(draggable_init(pos, Val(selected))),
          objs |-> objs, ret |-> "None"]
    ELSE LET w == draggable_work(Val(draggable), pos, objs)
         IN  [draggable |-> Some(w.self), objs |-> w.heap, ret |-> "None"]

Scene_LEFT_CLICK_UP_keep(pos) ==
    [draggable |-> None, selected |-> selected, ret |-> "None"]

\* a release that drops the selection but keeps the drag record
Scene_LEFT_CLICK_UP_keep_drag(pos) ==
    [draggable |-> draggable, selected |-> None, ret |-> "None"]

Scene_LEFT_CLICK_UP(pos) ==
    [draggable |-> None, selected |-> None, ret |-> "None"]

(* ------------------------------- Init --------------------------------- *)

\* the state Wmain() leaves: an empty scene and a laid-out toolbar
Init ==
    /\ shapes = <<>>
    /\ objs = [i \in Ids |-> None]
    /\ selected = None
    /\ draggable = None
    /\ buttons = Toolbar_init
    /\ nextId = 1
    /\ last = [op |-> "init", pos |-> None, pre |-> "Idle", via |-> "none",
               ret |-> "NA", err |-> "none", sid |-> 0]
    /\ gesture = None

(* ------------------------------ actions ------------------------------- *)

\* DrawArea.mouse_button_callback(MOUSE_BUTTON_LEFT, PRESS) with the cursor at pos
LeftPress(pos) ==
    LET clicked_button == Toolbar_hit_test(buttons, pos)
    IN  IF clicked_button # 0
        THEN /\ buttons' = [buttons EXCEPT ![clicked_button] = Button_click(@)]
             /\ last' = Event("press", Some(pos), "toolbar", "NA", "none", 0)
             /\ UNCHANGED <<shapes, objs, selected, draggable, nextId, gesture>>
        ELSE LET r == Scene_LEFT_CLICK_DOWN(pos)
             IN  /\ selected' = r.selected
                 /\ last' = Event("press", Some(pos), "scene", r.ret, "none", 0)
                 /\ gesture' = IF r.ret = "True"
                               THEN Some([grab |-> pos,
                                          center0 |-> Val(objs[Val(r.selected)]).pos,
                                          anchor |-> None])
                               ELSE gesture
                 /\ UNCHANGED <<shapes, objs, draggable, buttons, nextId>>

\* DrawArea.mouse_button_callback(MOUSE_BUTTON_LEFT, RELEASE)
LeftRelease(pos) ==
    LET r == Scene_LEFT_CLICK_UP(pos)
    IN  /\ selected' = r.selected
        /\ draggable' = r.draggable
        /\ objs' = Collect(objs, shapes, r.selected, r.draggable)
        /\ last' = Event("release", None, "scene", r.ret, "none", 0)
        /\ gesture' = None
        /\ UNCHANGED <<shapes, buttons, nextId>>

\* DrawArea.mouse_button_callback(MOUSE_BUTTON_RIGHT, RELEASE): Shape(pos, 40, color)
RightRelease(pos) ==
    /\ nextId <= MaxIds
    /\ objs' = [objs EXCEPT ![nextId] =
                   Some(Shape_init(pos, SHAPE_RADIUS, "green", nextId))]
    /\ shapes' = Scene_add_shape(shapes, nextId)
    /\ nextId' = nextId + 1
    /\ last' = Event("rclick", Some(pos), "none", "NA", "none", nextId)
    /\ UNCHANGED <<selected, draggable, buttons, gesture>>

\* DrawArea.mouse_button_callback(MOUSE_BUTTON_RIGHT, PRESS): neither branch acts
RightPress(pos) ==
    UNCHANGED vars

\* DrawArea.cursor_pos_callback; held is glfw.get_mouse_button(LEFT) == PRESS.
\* The first conjunct bounds the model: a drag that would carry a shape's
\* centre off the pointer lattice is not explored.
CursorPos(pos, held) ==
    IF held
    THEN LET r == Scene_LEFT_CLICK_DRAG(pos)
         IN  /\ \A i \in Ids : r.objs[i] # None => Val(r.objs[i]).pos \in Points
             /\ draggable' = r.draggable
             /\ objs' = r.objs
             /\ last' = Event("drag", Some(pos), "scene", r.ret, "none", 0)
             /\ gesture' = IF State = "Selected" /\ gesture # None
                           THEN Some([Val(gesture) EXCEPT !.anchor = Some(pos)])
                           ELSE gesture
             /\ UNCHANGED <<shapes, selected, buttons, nextId>>
    ELSE UNCHANGED vars

\* Wmain.add_shape / DrawArea.add_shape / Session.add_shape with a new Shape
AddShape(pos, radius, color) ==
    /\ nextId <= MaxIds
    /\ objs' = [objs EXCEPT ![nextId] = Some(Shape_init(pos, radius, color, nextId))]
    /\ shapes' = Scene_add_shape(shapes, nextId)
    /\ nextId' = nextId + 1
    /\ last' = Event("add", None, "none", "NA", "none", nextId)
    /\ UNCHANGED <<selected, draggable, buttons, gesture>>

\* Wmain.remove_shape / DrawArea.remove_shape / Session.remove_shape; a shape
\* that is not in the registry is one removed before or never added
RemoveShape(shape) ==
    LET r == Scene_remove_shape(shapes, shape)
    IN  /\ shapes' = r.shapes
        /\ objs' = Collect(objs, r.shapes, selected, draggable)
        /\ last' = Event("remove", None, "none", "NA", r.err, shape)
        /\ UNCHANGED <<selected, draggable, buttons, nextId, gesture>>

Next ==
    \/ \E pos \in Points : LeftPress(pos)
    \/ \E pos \in Points : LeftRelease(pos)
    \/ \E pos \in Points : RightRelease(pos)
    \/ \E pos \in Points : RightPress(pos)
    \/ \E pos \in Points, held \in BOOLEAN : CursorPos(pos, held)
    \/ \E pos \in Points, radius \in Radii, color \in Colors : AddShape(pos, radius, color)
    \/ \E shape \in Ids : RemoveShape(shape)

Spec == Init /\ [][Next]_vars

(* ------------------- the hit tests as pure functions ------------------- *)

\* offsets from a shape's centre: inside, on the circle (on an axis and, by
\* 3 : 4 : 5, off the axes) and one unit outside
ShapeOffsets(radius) ==
    LET c == {0, (3 * radius) \div 5, (4 * radius) \div 5, radius, radius + 1}
    IN  {vec2(sx * dx, sy * dy) : sx \in {-1, 1}, sy \in {-1, 1}, dx \in c, dy \in c}

\* coordinates around one side of a button: one unit outside, both edges,
\* the middle
ButtonCoords(origin, size) ==
    {origin - 1, origin, origin + size \div 2, origin + size, origin + size + 1}

\* a scene holding one shape, and a laid-out toolbar
InitHit ==
    \E pos \in Points, radius \in Radii, color \in Colors :
        /\ shapes = <<1>>
        /\ objs = [i \in Ids |->
                      IF i = 1 THEN Some(Shape_init(pos, radius, color, 1)) ELSE None]
        /\ selected = None
        /\ draggable = None
        /\ buttons = Toolbar_init
        /\ nextId = 2
        /\ last = [op |-> "init", pos |-> None, pre |-> "Idle", via |-> "none",
                   ret |-> "NA", err |-> "none", sid |-> 0]
        /\ gesture = None

\* one evaluation of Shape.contains(pos) on the registered shape
ContainsCall(pos) ==
    /\ last' = Event("contains", Some(pos), "none",
                     IF Shape_contains(Val(objs[shapes[1]]), pos)
                     THEN "True" ELSE "False",
                     "none", shapes[1])
    /\ UNCHANGED <<shapes, objs, selected, draggable, buttons, nextId, gesture>>

\* one evaluation of Button.hit_test(pos) on button i
HitTestCall(i, pos) ==
    /\ last' = Event("hit_test", Some(pos), "toolbar",
                     IF Button_hit_test(buttons[i], pos) THEN "True" ELSE "False",
                     "none", i)
    /\ UNCHANGED <<shapes, objs, selected, draggable, buttons, nextId, gesture>>

Center1 == Val(objs[shapes[1]]).pos

NextHit ==
    \/ \E d \in ShapeOffsets(Val(objs[shapes[1]]).radius) :
           ContainsCall(vec2_translate(Center1, d))
    \/ \E i \in 1..Len(buttons) :
           \E x \in ButtonCoords(Val(buttons[i].pos)[1], buttons[i].size),
              y \in ButtonCoords(Val(buttons[i].pos)[2], buttons[i].size) :
               HitTestCall(i, vec2(x, y))

SpecHit == InitHit /\ [][NextHit]_vars

(* ---------------------- vocabulary of the properties ------------------- *)

\* the registry positions whose shape contains p
Containing(p) == {i \in 1..Len(shapes) : Shape_contains(Val(objs[shapes[i]]), p)}

\* the last-inserted shape containing p (Containing(p) is not empty)
Topmost(p) == shapes[CHOOSE i \in Containing(p) : \A j \in Containing(p) : j <= i]

OnButton(p) == \E i \in 1..Len(buttons) : Button_hit_test(buttons[i], p)

Center(id) == Val(objs[id]).pos

\* the last call was a primary press that reached the scene in state Idle
PressInIdle == last.op = "press" /\ last.via = "scene" /\ last.pre = "Idle"

(* -------------------------------- C1 ---------------------------------- *)

\* C1 (as claimed): after a primary press that met state Idle at a point P
\* contained in some shape, the selection is the last-inserted shape
\* containing P.
C1_TopmostWins ==
    (PressInIdle /\ Containing(Val(last.pos)) # {})
        => selected = Some(Topmost(Val(last.pos)))

(* -------------------------------- C2 ---------------------------------- *)

\* C2 (as claimed): while a shape selected by a press at G is being dragged
\* and the pointer is at G + D, the shape's centre is its centre at selection
\* time plus D.
C2_DragPreservesOffset ==
    State = "Dragging" =>
        Center(Val(selected)) =
            vec2_translate(Val(gesture).center0,
                vec2_sub(Val(draggable).current_pos, Val(gesture).grab))

\* C2 (amended): the same, provided the first drag event after the press was
\* delivered at the grab point G itself (that event only anchors the drag):
\* the centre is then its centre at selection time plus D, whatever drag
\* positions came in between.
C2_DragPreservesOffsetFromAnchor ==
    (State = "Dragging" /\ Val(gesture).anchor = Some(Val(gesture).grab)) =>
        Center(Val(selected)) =
            vec2_translate(Val(gesture).center0,
                vec2_sub(Val(draggable).current_pos, Val(gesture).grab))

\* a shape grabbed off its centre, anchored at the grab point and dragged away
C2_Witness ==
    /\ State = "Dragging"
    /\ last.op = "drag" /\ last.pre = "Dragging"
    /\ Val(gesture).anchor = Some(Val(gesture).grab)
    /\ Val(gesture).grab # Val(gesture).center0
    /\ Val(draggable).current_pos # Val(gesture).grab
    /\ Center(Val(selected)) # Val(gesture).center0
    /\ Center(Val(selected)) # Val(draggable).current_pos

(* -------------------------------- C3 ---------------------------------- *)

\* C3 (as claimed): remove_shape of a shape that is not in the registry
\* raises no error and leaves the registry, the selection and the drag
\* record unchanged.
C3_RemoveAbsentNoOp ==
    [][\A shape \in Ids :
         (RemoveShape(shape) /\ shape \notin Range(shapes)) =>
            /\ last'.err = "none"
            /\ UNCHANGED <<shapes, selected, draggable>>]_vars

(* -------------------------------- C4 ---------------------------------- *)

\* C4 (as claimed): the selected shape and the shape of the active drag are
\* always members of the registry.
C4_NoDanglingReference ==
    /\ selected # None => Val(selected) \in Range(shapes)
    /\ draggable # None => Val(draggable).shape \in Range(shapes)

(* -------------------------------- C5 ---------------------------------- *)

\* C5: a primary press at a point inside a button's square is handled by the
\* toolbar only: it is not forwarded to the scene and leaves the selection,
\* the drag record, the registry and every shape unchanged, whether or not
\* the point lies inside a shape.
C5_ToolbarPrecedence ==
    [][\A pos \in Points :
         (LeftPress(pos) /\ OnButton(pos)) =>
            /\ last'.via = "toolbar"
            /\ buttons' # buttons
            /\ UNCHANGED <<shapes, objs, selected, draggable>>]_vars

\* a press in state Idle on a button that lies over a shape
C5_Witness ==
    /\ last.op = "press" /\ last.via = "toolbar" /\ last.pre = "Idle"
    /\ OnButton(Val(last.pos))
    /\ Containing(Val(last.pos)) # {}
    /\ selected = None

(* -------------------------------- C6 ---------------------------------- *)

\* C6: a primary press on a button flips that button's toggled flag and
\* leaves every other button as it was.
C6_ToggleFlip ==
    [][\A pos \in Points : \A i \in 1..Len(buttons) :
         (LeftPress(pos) /\ Button_hit_test(buttons[i], pos)) =>
            /\ buttons'[i].selected = ~ buttons[i].selected
            /\ \A j \in 1..Len(buttons) : j # i => buttons'[j] = buttons[j]]_vars

\* the first button has just been toggled back off while the second is on
C6_Witness ==
    /\ last.op = "press" /\ last.via = "toolbar"
    /\ Button_hit_test(buttons[1], Val(last.pos))
    /\ ~ buttons[1].selected
    /\ buttons[2].selected

(* -------------------------------- C7 ---------------------------------- *)

\* C7: a primary release leaves no selection and no drag record (state Idle),
\* changes neither the registry nor any shape in it, and in state Idle
\* changes nothing of the scene or the toolbar.
C7_ReleaseEndsSession ==
    [][\A pos \in Points :
         LeftRelease(pos) =>
            /\ selected' = None /\ draggable' = None
            /\ shapes' = shapes
            /\ \A id \in Range(shapes) : objs'[id] = objs[id]
            /\ buttons' = buttons
            /\ State = "Idle" => UNCHANGED <<objs, selected, draggable>>]_vars

\* a release that ended a drag which had moved the shape
C7_Witness ==
    /\ last.op = "release" /\ last.pre = "Dragging"
    /\ selected = None /\ draggable = None
    /\ shapes # <<>>

(* -------------------------------- C8 ---------------------------------- *)

\* C8 (as claimed): a primary press that reaches the scene in state Idle
\* selects a shape containing the point and returns True when some shape
\* contains it, and otherwise leaves no selection and returns False.
C8_PressOutcome ==
    PressInIdle =>
        IF Containing(Val(last.pos)) # {}
        THEN /\ selected # None
             /\ Val(selected) \in {shapes[i] : i \in Containing(Val(last.pos))}
             /\ draggable = None
             /\ last.ret = "True"
        ELSE /\ selected = None
             /\ draggable = None
             /\ last.ret = "False"

(* -------------------------------- C9 ---------------------------------- *)

\* C9: a right-click at P, in any state and whether or not P is inside a
\* button, appends exactly one new shape centred at P at the end of the
\* registry and leaves the selection, the drag record, the buttons and all
\* existing shapes unchanged.
C9_RightClickCreates ==
    [][\A pos \in Points :
         RightRelease(pos) =>
            /\ Len(shapes') = Len(shapes) + 1
            /\ SubSeq(shapes', 1, Len(shapes)) = shapes
            /\ shapes'[Len(shapes')] \notin Range(shapes)
            /\ objs[shapes'[Len(shapes')]] = None
            /\ Val(objs'[shapes'[Len(shapes')]]).pos = pos
            /\ \A id \in Ids : objs[id] # None => objs'[id] = objs[id]
            /\ UNCHANGED <<selected, draggable, buttons>>]_vars

\* a right-click on a button during a drag, with a shape already registered
C9_Witness ==
    /\ last.op = "rclick" /\ last.pre = "Dragging"
    /\ OnButton(Val(last.pos))
    /\ Len(shapes) = 2
    /\ Center(shapes[2]) = Val(last.pos)
    /\ State = "Dragging"

(* -------------------------------- C10 --------------------------------- *)

\* C10: the first drag event in state Selected creates a drag record with
\* the event's position as last-known position and the selection as its
\* shape, enters Dragging and moves no shape.
C10_AnchorFrame ==
    [][\A pos \in Points :
         (CursorPos(pos, TRUE) /\ State = "Selected") =>
            /\ draggable' = Some([current_pos |-> pos, shape |-> Val(selected)])
            /\ selected' = selected
            /\ objs' = objs
            /\ shapes' = shapes]_vars

\* the anchoring drag event, at a point that is not the shape's centre
C10_Witness ==
    /\ last.op = "drag" /\ last.pre = "Selected"
    /\ State = "Dragging"
    /\ Val(draggable).current_pos = Val(last.pos)
    /\ Val(draggable).current_pos # Val(gesture).grab
    /\ Center(Val(selected)) = Val(gesture).center0
    /\ Center(Val(selected)) # Val(last.pos)

(* -------------------------------- C11 --------------------------------- *)

\* C11: a drag event at p in state Dragging moves the dragged shape's centre
\* by p minus the drag record's last-known position and makes p the
\* last-known position; so after it the centre is the centre at selection
\* time plus p minus the position of the first (anchoring) drag event.
C11_DeltaTranslation ==
    [][\A pos \in Points :
         (CursorPos(pos, TRUE) /\ State = "Dragging") =>
            LET d == Val(draggable)
            IN  /\ Val(objs'[d.shape]).pos =
                       vec2_translate(Center(d.shape), vec2_sub(pos, d.current_pos))
                /\ draggable' = Some([current_pos |-> pos, shape |-> d.shape])
                /\ Val(objs'[d.shape]).pos =
                       vec2_translate(Val(gesture).center0,
                           vec2_sub(pos, Val(Val(gesture).anchor)))]_vars

\* a shape grabbed at one point, anchored at another and then moved
C11_Witness ==
    /\ last.op = "drag" /\ last.pre = "Dragging"
    /\ State = "Dragging"
    /\ Val(gesture).anchor # Some(Val(gesture).grab)
    /\ Val(draggable).current_pos # Val(Val(gesture).anchor)
    /\ Center(Val(selected)) =
           vec2_translate(Val(gesture).center0,
               vec2_sub(Val(draggable).current_pos, Val(Val(gesture).anchor)))
    /\ Center(Val(selected)) # Val(gesture).center0

(* -------------------------------- C12 --------------------------------- *)

\* C12: there is at most one selected shape and at most one drag record, and
\* a drag record exists only while a selection exists.
C12_SessionConsistency ==
    /\ Len(selected) <= 1
    /\ Len(draggable) <= 1
    /\ draggable # None => selected # None

\* a drag in progress (and, after it, the release that ends both at once)
C12_Witness ==
    /\ draggable # None /\ selected # None
    /\ last.op = "drag" /\ last.pre = "Dragging"
    /\ Len(shapes) = 2

(* -------------------------------- C13 --------------------------------- *)

\* C13: the selection changes only in a press or a release step and a drag
\* record is discarded only in a release step; a shape's centre changes only
\* in a drag step taken in state Dragging, and then it is the selected
\* shape's; press, release and drag steps change no shape's radius, colour or
\* id and leave the registry as it is.
C13_StateMachineFrame ==
    [][/\ selected' # selected =>
              \E pos \in Points : LeftPress(pos) \/ LeftRelease(pos)
       /\ (draggable # None /\ draggable' = None) =>
              \E pos \in Points : LeftRelease(pos)
       /\ \A id \in Ids :
              (objs[id] # None /\ objs'[id] # None
                   /\ Val(objs'[id]).pos # Val(objs[id]).pos) =>
                 /\ \E pos \in Points : CursorPos(pos, TRUE)
                 /\ State = "Dragging"
                 /\ selected = Some(id)
       /\ (\E pos \in Points :
               LeftPress(pos) \/ LeftRelease(pos) \/ CursorPos(pos, TRUE)) =>
                 /\ shapes' = shapes
                 /\ \A id \in Ids :
                        (objs[id] # None /\ objs'[id] # None) =>
                           /\ Val(objs'[id]).radius = Val(objs[id]).radius
                           /\ Val(objs'[id]).color = Val(objs[id]).color
                           /\ Val(objs'[id]).id = Val(objs[id]).id]_vars

\* a drag has moved the selected one of two registered shapes away from the
\* other, which lay at the same place
C13_Witness ==
    /\ last.op = "drag" /\ last.pre = "Dragging"
    /\ Len(shapes) = 2
    /\ Val(selected) \in Range(shapes)
    /\ Center(Val(selected)) # Val(gesture).center0
    /\ \E id \in Range(shapes) :
           id # Val(selected) /\ Center(id) = Val(gesture).center0

(* -------------------------------- C14 --------------------------------- *)

\* C14: a drag event in state Idle creates no drag record, selects nothing
\* and moves no shape, wherever the pointer is; it returns False.
C14_DragInIdleIsNoOp ==
    [][\A pos \in Points :
         (CursorPos(pos, TRUE) /\ State = "Idle") =>
            /\ UNCHANGED <<shapes, objs, selected, draggable, buttons>>
            /\ last'.ret = "False"]_vars

\* a drag event in state Idle with the pointer inside a registered shape
C14_Witness ==
    /\ last.op = "drag" /\ last.pre = "Idle"
    /\ Containing(Val(last.pos)) # {}
    /\ selected = None /\ draggable = None
    /\ last.ret = "False"

(* -------------------------------- C15 --------------------------------- *)

\* C15 (as claimed): consecutive buttons are BUTTON_MARGIN apart, the gap
\* left of the first button and the gap right of the last button differ by at
\* most one unit, and the positions are those assigned at construction.
C15_ToolbarLayout ==
    LET n == Len(buttons)
        left_gap == Val(buttons[1].pos)[1]
        right_gap == WIDTH - (Val(buttons[n].pos)[1] + buttons[n].size)
    IN  /\ \A i \in 1..(n - 1) :
               Val(buttons[i + 1].pos)[1]
                   - (Val(buttons[i].pos)[1] + buttons[i].size) = BUTTON_MARGIN
        /\ left_gap - right_gap \in -1..1
        /\ \A i \in 1..n : buttons[i].pos = Toolbar_init[i].pos

(* -------------------------------- C16 --------------------------------- *)

\* no two entries of the registry reg are the same object or carry the same id
NoSharedId(reg, heap) ==
    \A i, j \in 1..Len(reg) :
        i # j => /\ reg[i] # reg[j]
                 /\ Val(heap[reg[i]]).id # Val(heap[reg[j]]).id

C17_InclusiveBoundaries ==
    LET p == Val(last.pos)
    IN  /\ last.op = "contains" =>
               LET c == Center(last.sid)
                   r == Val(objs[last.sid]).radius
                   dx == IF p[1] >= c[1] THEN p[1] - c[1] ELSE c[1] - p[1]
                   dy == IF p[2] >= c[2] THEN p[2] - c[2] ELSE c[2] - p[2]
               IN  last.ret = IF dx * dx + dy * dy > r * r THEN "False" ELSE "True"
        /\ last.op = "hit_test" =>
               LET o == Val(buttons[last.sid].pos)
                   size == buttons[last.sid].size
                   outside == \/ p[1] < o[1] \/ p[1] > o[1] + size
                              \/ p[2] < o[2] \/ p[2] > o[2] + size
               IN  last.ret = IF outside THEN "False" ELSE "True"
        /\ last.op \in {"contains", "hit_test"} =>
               /\ shapes = <<1>> /\ selected = None /\ draggable = None
               /\ buttons = Toolbar_init

\* a point on the circle but on neither axis through the centre is contained
C17_Witness ==
    /\ last.op = "contains" /\ last.ret = "True"
    /\ LET p == Val(last.pos)
           c == Center(last.sid)
           r == Val(objs[last.sid]).radius
       IN  /\ p[1] # c[1] /\ p[2] # c[2]
           /\ (p[1] - c[1]) * (p[1] - c[1]) + (p[2] - c[2]) * (p[2] - c[2]) = r * r

(* -------------------------------- C18 --------------------------------- *)

\* C18: whenever a drag record exists, its shape is the selected shape.
C18_DragShapeIsSelection ==
    draggable # None => selected = Some(Val(draggable).shape)

\* the second of two shapes is being dragged with the pointer inside both
C18_Witness ==
    /\ State = "Dragging"
    /\ Len(shapes) = 2
    /\ selected = Some(shapes[2])
    /\ Val(draggable).shape = shapes[2]
    /\ Containing(Val(draggable).current_pos) = {1, 2}

(* -------------------------------- C19 --------------------------------- *)

\* C19: a primary press that reaches the scene while a shape is selected
\* (state Selected or Dragging) leaves the selection, the drag record, the
\* registry, the shapes and the buttons unchanged, whatever shape the point
\* lies in, and does not return True.
C19_PressWhileSelectedIgnored ==
    [][\A pos \in Points :
         (LeftPress(pos) /\ ~ OnButton(pos) /\ State # "Idle") =>
            /\ UNCHANGED <<shapes, objs, selected, draggable, buttons>>
            /\ last'.via = "scene"
            /\ last'.ret # "True"]_vars

\* a press during a drag at a point inside a registered shape that is not
\* the selected one
C19_Witness ==
    /\ last.op = "press" /\ last.via = "scene" /\ last.pre = "Dragging"
    /\ State = "Dragging"
    /\ \E i \in Containing(Val(last.pos)) : shapes[i] # Val(selected)
    /\ last.ret = "None"

====
